---- MODULE Spec2Model ----
(***************************************************************************)
(* Model of src/lambda_function.py: the read-through cache lambda_handler  *)
(* over a DynamoDB table (get_record / store_record) and the OpenAI chat   *)
(* completion call (process_with_openai).                                  *)
(*                                                                         *)
(* Python values are pairs [t, s]: t is the Python type name and s the     *)
(* text str() gives for the value.  JSON values are pairs [j, lit]: the    *)
(* JSON type and the literal.  DynamoDB attribute values are pairs [T, v]: *)
(* the attribute type (S, N, NULL) and the stored text.  An optional value *)
(* (Python None or a dict) is a set with at most one element.              *)
(***************************************************************************)
EXTENDS Integers, Sequences, FiniteSets, TLC

\* Bounds of the model.
MaxConcurrent == 2      \* invocations the host runs at the same time
MaxInvocations == 2     \* invocations started in one behaviour

Invocations == 1..MaxConcurrent

(***************************************************************************)
(* Python, JSON and DynamoDB values                                        *)
(***************************************************************************)
PyNone == [t |-> "NoneType", s |-> "None"]
PyStr(x) == [t |-> "str", s |-> x]
PyInt(x) == [t |-> "int", s |-> x]
PyFloat(x) == [t |-> "float", s |-> x]
PyDecimal(x) == [t |-> "Decimal", s |-> x]

JString(x) == [j |-> "string", lit |-> x]
JInt(x) == [j |-> "int", lit |-> x]
JReal(x) == [j |-> "real", lit |-> x]
JNull == [j |-> "null", lit |-> "null"]

\* Faulty variant: only None counts as missing.
Truthy_NoneOnly(v) == v.t # "NoneType"

\* Python truthiness, as used by `not record_id or not title` (line 19).
Truthy(v) == ~(v.t = "NoneType" \/ (v.t = "str" /\ v.s = "") \/ (v.t = "int" /\ v.s = "0"))

\* str(x), line 124: the text of the value, as a str.
str(v) == PyStr(v.s)

\* event.get(k), lines 14-16: None when the key is absent.
Get(e, k) == IF k \in DOMAIN e THEN e[k] ELSE PyNone

\* repr of the double nearest to a JSON real literal (json.loads, line 102,
\* followed by str(), line 124): the shortest text that reads back as that double.
FloatRepr(lit) ==
    CASE lit = "0.87" -> "0.87"
      [] lit = "0.95" -> "0.95"
      [] lit = "0.870" -> "0.87"
      [] lit = "1e-7" -> "1e-07"
      [] lit = "0.12345678901234567890" -> "0.12345678901234568"
      [] OTHER -> lit

\* json.loads on one JSON value (line 102).
JsonLoadsValue(jv) ==
    CASE jv.j = "string" -> PyStr(jv.lit)
      [] jv.j = "int" -> PyInt(jv.lit)
      [] jv.j = "real" -> PyFloat(FloatRepr(jv.lit))
      [] OTHER -> PyNone

\* json.dumps on one Python value (lines 36, 48); a Decimal is not serializable.
JsonSerializable(v) == v.t # "Decimal"
JsonDumpsValue(v) ==
    CASE v.t = "str" -> JString(v.s)
      [] v.t = "int" -> JInt(v.s)
      [] v.t = "float" -> JReal(v.s)
      [] OTHER -> JNull

\* json.dumps on a dict of Python values.
JsonDumpsDict(d) == [k \in DOMAIN d |-> JsonDumpsValue(d[k])]
DictSerializable(d) == \A k \in DOMAIN d : JsonSerializable(d[k])

\* boto3's serializer inside put_item (line 117): str -> S, int/Decimal -> N,
\* None -> NULL; a float is refused with TypeError before any request is sent.
DynamoSerializable(v) == v.t # "float"
DynamoSerialize(v) ==
    CASE v.t = "str" -> [T |-> "S", v |-> v.s]
      [] v.t \in {"int", "Decimal"} -> [T |-> "N", v |-> v.s]
      [] OTHER -> [T |-> "NULL", v |-> ""]

\* boto3's deserializer inside get_item (line 64): S -> str, N -> Decimal, NULL -> None.
DynamoDeserialize(a) ==
    CASE a.T = "S" -> PyStr(a.v)
      [] a.T = "N" -> PyDecimal(a.v)
      [] OTHER -> PyNone

SerializeItem(item) == [k \in DOMAIN item |-> DynamoSerialize(item[k])]
DeserializeItem(row) == [k \in DOMAIN row |-> DynamoDeserialize(row[k])]

(***************************************************************************)
(* Inputs: the events of the host and the replies of the chat completion.  *)
(***************************************************************************)
Events ==
    { [RecordID |-> PyStr("7"), Title |-> PyStr("1984"), OriginalLanguage |-> PyStr("English")],
      [RecordID |-> PyStr("7"), Title |-> PyStr("1984")],
      [RecordID |-> PyStr("42"), Title |-> PyStr("Amelie"), OriginalLanguage |-> PyStr("French")],
      [RecordID |-> PyStr("42")],
      [RecordID |-> PyStr("42"), Title |-> PyStr("")],
      [Title |-> PyStr("1984"), OriginalLanguage |-> PyStr("English")],
      [RecordID |-> PyStr(""), Title |-> PyStr("Amelie")] }

Titles == {"1984", "Amelie"}

RequiredKeys ==
    {"DetectedLanguage", "ISO639LanguageCode", "Confidence", "Transliteration", "Translation"}

\* The content of a chat completion: text that is JSON or not; JSON that is an
\* object or not; the members of the object.
NoMembers == [k \in {} |-> JNull]
ReplyEnglish ==
    [json |-> TRUE, isobj |-> TRUE,
     obj |-> [DetectedLanguage |-> JString("English"), ISO639LanguageCode |-> JString("en"),
              Confidence |-> JReal("0.87"), Transliteration |-> JString("1984"),
              Translation |-> JString("1984")]]
ReplyFrench ==
    [json |-> TRUE, isobj |-> TRUE,
     obj |-> [DetectedLanguage |-> JString("French"), ISO639LanguageCode |-> JString("fr"),
              Confidence |-> JReal("0.95"), Transliteration |-> JString("Amelie"),
              Translation |-> JString("Amelie")]]
ReplyNumber ==
    [json |-> TRUE, isobj |-> TRUE,
     obj |-> [DetectedLanguage |-> JString("English"), ISO639LanguageCode |-> JString("en"),
              Confidence |-> JReal("0.87"), Transliteration |-> JString("1984"),
              Translation |-> JInt("1984")]]
ReplyMissingKey ==
    [json |-> TRUE, isobj |-> TRUE,
     obj |-> [DetectedLanguage |-> JString("English"), ISO639LanguageCode |-> JString("en"),
              Confidence |-> JReal("0.87"), Transliteration |-> JString("1984")]]
ReplyList == [json |-> TRUE, isobj |-> FALSE, obj |-> NoMembers]
ReplyNotJson == [json |-> FALSE, isobj |-> FALSE, obj |-> NoMembers]

Replies == {ReplyEnglish, ReplyFrench, ReplyNumber, ReplyMissingKey, ReplyList, ReplyNotJson}

VARIABLES
    store,        \* the table TitleLanguageData: <<RecordID, Title>> -> row, on the keys present
    pc,           \* per invocation: where lambda_handler stands
    event,        \* per invocation: its event
    openai_data,  \* per invocation: the local openai_data (line 40)
    response,     \* per invocation: what lambda_handler returned
    calls,        \* per invocation: the collaborator calls it made, in order
    started,      \* invocations started so far
    service       \* the analysis service: repeatable or not, its answer per title
                  \* when repeatable, and the replies it can give

vars == <<store, pc, event, openai_data, response, calls, started, service>>

Absent == {}
NoEvent == [k \in {} |-> PyNone]
NoData == [isdict |-> FALSE, d |-> [k \in {} |-> PyNone]]
NoResponse == [statusCode |-> 0, body |-> [message |-> {}, error |-> {}, data |-> {}]]

\* What a call gives back: a value, or a raised exception (its type and message).
Return(v) == [raised |-> FALSE, type |-> "", msg |-> "", value |-> v]
Raise(type, msg, v) == [raised |-> TRUE, type |-> type, msg |-> msg, value |-> v]

(***************************************************************************)
(* get_record (lines 58-75)                                                *)
(***************************************************************************)
get_record(table, record_id, title, client_error) ==
    IF client_error
    THEN Raise("Exception", "DynamoDB error", Absent)
    ELSE LET key == <<record_id.s, title.s>> IN
         Return(IF key \in DOMAIN table THEN {DeserializeItem(table[key])} ELSE Absent)

(***************************************************************************)
(* process_with_openai (lines 77-110)                                      *)
(***************************************************************************)
\* json.loads (line 102) on the whole content.
JsonLoads(content) ==
    [isdict |-> content.isobj,
     d |-> [k \in DOMAIN content.obj |-> JsonLoadsValue(content.obj[k])]]

process_with_openai(title, api_error, content) ==
    IF api_error
    THEN Raise("Exception", "OpenAI API error", NoData)
    ELSE IF ~content.json
    THEN Raise("Exception", "Failed to parse the response from OpenAI.", NoData)
    ELSE Return(JsonLoads(content))

(***************************************************************************)
(* store_record (lines 112-130)                                            *)
(***************************************************************************)
KeyOrder ==
    <<"DetectedLanguage", "ISO639LanguageCode", "Confidence", "Transliteration", "Translation">>

\* The first subscript data[k] of the Item literal (lines 122-126) that fails.
MissingKeys(data) == {n \in 1..Len(KeyOrder) : KeyOrder[n] \notin DOMAIN data.d}
FirstMissing(data) == KeyOrder[CHOOSE n \in MissingKeys(data) : \A m \in MissingKeys(data) : n <= m]

\* Faulty variant: DetectedCode filled from the wrong member.
Item_WrongMember(record_id, title, original_language, data) ==
    [RecordID |-> record_id,
     Title |-> title,
     OriginalLanguage |-> original_language,
     DetectedLanguage |-> data.d["DetectedLanguage"],
     DetectedCode |-> data.d["DetectedLanguage"],
     Confidence |-> str(data.d["Confidence"]),
     Transliteration |-> data.d["Transliteration"],
     Translation |-> data.d["Translation"]]

\* The Item literal of lines 118-127.
Item(record_id, title, original_language, data) ==
    [RecordID |-> record_id,
     Title |-> title,
     OriginalLanguage |-> original_language,
     DetectedLanguage |-> data.d["DetectedLanguage"],
     DetectedCode |-> data.d["ISO639LanguageCode"],
     Confidence |-> str(data.d["Confidence"]),
     Transliteration |-> data.d["Transliteration"],
     Translation |-> data.d["Translation"]]

\* Faulty variant: the table is left holding the new row only.
put_item_Replace(table, item) ==
    LET key == <<item.RecordID.s, item.Title.s>> IN
    [k \in {key} |-> SerializeItem(item)]

\* Faulty variant: the row is filed under the key with its two parts exchanged.
put_item_SwappedKey(table, item) ==
    LET key == <<item.Title.s, item.RecordID.s>> IN
    [k \in DOMAIN table \cup {key} |-> IF k = key THEN SerializeItem(item) ELSE table[k]]

\* put_item (line 117): the row replaces whatever the key held.
put_item(table, item) ==
    LET key == <<item.RecordID.s, item.Title.s>> IN
    [k \in DOMAIN table \cup {key} |-> IF k = key THEN SerializeItem(item) ELSE table[k]]

\* Faulty variant: missing members read as None (data.get) instead of raising.
store_record_Lenient(table, record_id, title, original_language, data, client_error) ==
    LET full == [isdict |-> TRUE,
                 d |-> [k \in {KeyOrder[n] : n \in 1..Len(KeyOrder)} |->
                           IF data.isdict /\ k \in DOMAIN data.d THEN data.d[k] ELSE PyNone]]
        item == Item(record_id, title, original_language, full)
    IN IF client_error
       THEN Raise("Exception", "DynamoDB error",
                  [table |-> table, put |-> {[ok |-> FALSE, item |-> item]}])
       ELSE Return([table |-> put_item(table, item), put |-> {[ok |-> TRUE, item |-> item]}])

\* Faulty variant: the ClientError of put_item is swallowed.
store_record_Swallow(table, record_id, title, original_language, data, client_error) ==
    IF ~data.isdict
    THEN Raise("TypeError", "list indices must be integers or slices, not str",
               [table |-> table, put |-> {}])
    ELSE IF MissingKeys(data) # {}
    THEN Raise("KeyError", FirstMissing(data), [table |-> table, put |-> {}])
    ELSE LET item == Item(record_id, title, original_language, data) IN
         IF client_error
         THEN Return([table |-> table, put |-> {[ok |-> FALSE, item |-> item]}])
         ELSE Return([table |-> put_item(table, item), put |-> {[ok |-> TRUE, item |-> item]}])

\* value: the table afterwards, and the put_item call made (at most one).
store_record(table, record_id, title, original_language, data, client_error) ==
    IF ~data.isdict
    THEN Raise("TypeError", "list indices must be integers or slices, not str",
               [table |-> table, put |-> {}])
    ELSE IF MissingKeys(data) # {}
    THEN Raise("KeyError", FirstMissing(data), [table |-> table, put |-> {}])
    ELSE LET item == Item(record_id, title, original_language, data) IN
         IF \E k \in DOMAIN item : ~DynamoSerializable(item[k])
         THEN Raise("TypeError", "Float types are not supported. Use Decimal types instead.",
                    [table |-> table, put |-> {[ok |-> FALSE, item |-> item]}])
         ELSE IF client_error
         THEN Raise("Exception", "DynamoDB error",
                    [table |-> table, put |-> {[ok |-> FALSE, item |-> item]}])
         ELSE Return([table |-> put_item(table, item), put |-> {[ok |-> TRUE, item |-> item]}])

(***************************************************************************)
(* lambda_handler (lines 8-56)                                             *)
(***************************************************************************)
\* Lines 20-23.
BadRequest ==
    [statusCode |-> 400,
     body |-> [message |-> {}, error |-> {"RecordID and Title are required."}, data |-> {}]]

\* Lines 34-37 and 46-49: json.dumps of the message and the data.
Ok(message, data) ==
    [statusCode |-> 200, body |-> [message |-> {message}, error |-> {}, data |-> {JsonDumpsDict(data)}]]

\* An exception that no handler of lambda_handler takes leaves it without a response.
Uncaught == [statusCode |-> -1, body |-> [message |-> {}, error |-> {}, data |-> {}]]

IsResponse(r) == r.statusCode > 0

\* Faulty variant: only the exceptions the helpers raise themselves are taken.
Except_OnlyException(exc) ==
    IF exc.type = "Exception"
    THEN [statusCode |-> 501, body |-> [message |-> {}, error |-> {exc.msg}, data |-> {}]]
    ELSE Uncaught

\* Faulty variant: every failure reported with the status of a validation failure.
Except_BadRequest(exc) ==
    [statusCode |-> 400, body |-> [message |-> {}, error |-> {exc.msg}, data |-> {}]]

\* Lines 52-56: `except Exception` takes every exception the body raises.
Except(exc) ==
    [statusCode |-> 501, body |-> [message |-> {}, error |-> {exc.msg}, data |-> {}]]


\* Lines 33-37: the record found is returned; json.dumps raises on a Decimal.
Hit(record) ==
    IF DictSerializable(record)
    THEN Ok("Record found.", record)
    ELSE Except(Raise("TypeError", "Object of type Decimal is not JSON serializable", record))

\* Lines 46-49: the data returned after a successful store.
Stored(item, data) == Ok("Record processed and stored.", data.d)

Finish(r) == IF IsResponse(r) THEN "done" ELSE "crashed"

\* Where lambda_handler goes on: a return or a caught exception ends it
\* (lines 19-23, 33-37, 52-56); otherwise the next statement runs.
AfterValidate(r) == IF r = NoResponse THEN "get_record" ELSE Finish(r)
\* Faulty variant: the hit does not return; the handler goes on to the analysis.
AfterLookup_FallThrough(r) == IF IsResponse(r) /\ r.statusCode # 200 THEN Finish(r) ELSE "process_with_openai"
\* Faulty variant: a failed fetch is taken for a miss.
AfterLookup_ErrorAsMiss(r) == IF r.statusCode = 200 THEN Finish(r) ELSE "process_with_openai"
\* Faulty variant: a failed fetch is tried again.
AfterLookup_Retry(r) ==
    IF r = NoResponse THEN "process_with_openai"
    ELSE IF r.statusCode = 200 THEN Finish(r) ELSE "get_record"
AfterLookup(r) == IF r = NoResponse THEN "process_with_openai" ELSE Finish(r)
AfterAnalyze(r) == IF r = NoResponse THEN "store_record" ELSE Finish(r)

\* Lines 12-27: read the event, validate, build the table resource.
Validate(i, e, resource_error) ==
    /\ pc[i] \in {"idle", "done"}
    /\ started < MaxInvocations
    /\ started' = started + 1
    /\ event' = [event EXCEPT ![i] = e]
    /\ calls' = [calls EXCEPT ![i] = <<>>]
    /\ openai_data' = [openai_data EXCEPT ![i] = NoData]
    /\ LET record_id == Get(e, "RecordID")
           title == Get(e, "Title")
           r == IF ~Truthy(record_id) \/ ~Truthy(title)
                THEN BadRequest
                ELSE IF resource_error
                THEN Except(Raise("NoRegionError", "You must specify a region.", {}))
                ELSE NoResponse
       IN /\ response' = [response EXCEPT ![i] = r]
          /\ pc' = [pc EXCEPT ![i] = AfterValidate(r)]
    /\ UNCHANGED <<store, service>>

\* Lines 29-37: look the record up; return it when found.
Lookup(i, client_error) ==
    /\ pc[i] = "get_record"
    /\ LET got == get_record(store, Get(event[i], "RecordID"), Get(event[i], "Title"), client_error)
           r == IF got.raised THEN Except(got)
                ELSE IF got.value # Absent THEN Hit(CHOOSE rec \in got.value : TRUE)
                ELSE NoResponse
       IN /\ calls' = [calls EXCEPT ![i] =
                          Append(@, [op |-> "get_item", ok |-> ~got.raised, item |-> got.value,
                                     content |-> {}])]
          /\ response' = [response EXCEPT ![i] = r]
          /\ pc' = [pc EXCEPT ![i] = AfterLookup(r)]
    /\ UNCHANGED <<store, event, openai_data, started, service>>

\* Line 40: ask the analysis service.
Analyze(i, api_error, content) ==
    /\ pc[i] = "process_with_openai"
    /\ service.repeatable => content = service.answer[Get(event[i], "Title").s]
    /\ LET got == process_with_openai(Get(event[i], "Title"), api_error, content)
           r == IF got.raised THEN Except(got) ELSE NoResponse
       IN /\ calls' = [calls EXCEPT ![i] =
                          Append(@, [op |-> "create", ok |-> ~api_error, item |-> {},
                                     content |-> IF api_error THEN {} ELSE {content}])]
          /\ openai_data' = [openai_data EXCEPT ![i] = got.value]
          /\ response' = [response EXCEPT ![i] = r]
          /\ pc' = [pc EXCEPT ![i] = AfterAnalyze(r)]
    /\ UNCHANGED <<store, event, started, service>>

\* Lines 43-49: store the new record and return.
Persist(i, client_error) ==
    /\ pc[i] = "store_record"
    /\ LET e == event[i]
           got == store_record(store, Get(e, "RecordID"), Get(e, "Title"),
                               Get(e, "OriginalLanguage"), openai_data[i], client_error)
           r == IF got.raised THEN Except(got)
                ELSE Stored(CHOOSE p \in got.value.put : TRUE, openai_data[i])
       IN /\ store' = got.value.table
          /\ calls' = [calls EXCEPT ![i] =
                          @ \o IF got.value.put = {} THEN <<>>
                               ELSE LET p == CHOOSE p \in got.value.put : TRUE
                                    IN <<[op |-> "put_item", ok |-> p.ok, item |-> {p.item},
                                          content |-> {}]>>]
          /\ response' = [response EXCEPT ![i] = r]
          /\ pc' = [pc EXCEPT ![i] = Finish(r)]
    /\ UNCHANGED <<event, openai_data, started, service>>

\* The table before the first invocation: empty, or holding a record that an
\* earlier invocation stored.
EmptyTable == [k \in {} |-> NoEvent]
InitialTables ==
    {EmptyTable} \cup
    { put_item(EmptyTable, Item(PyStr("7"), PyStr("1984"), PyStr("English"), JsonLoads(c))) :
        c \in {ReplyEnglish, ReplyNumber} }

Init ==
    /\ store \in InitialTables
    /\ pc = [i \in Invocations |-> "idle"]
    /\ event = [i \in Invocations |-> NoEvent]
    /\ openai_data = [i \in Invocations |-> NoData]
    /\ response = [i \in Invocations |-> NoResponse]
    /\ calls = [i \in Invocations |-> <<>>]
    /\ started = 0
    /\ service = [repeatable |-> FALSE, answer |-> [t \in Titles |-> ReplyEnglish],
                  replies |-> Replies]

Next ==
    \E i \in Invocations :
        \/ \E e \in Events, resource_error \in BOOLEAN : Validate(i, e, resource_error)
        \/ \E client_error \in BOOLEAN : Lookup(i, client_error)
        \/ \E api_error \in BOOLEAN, content \in service.replies : Analyze(i, api_error, content)
        \/ \E client_error \in BOOLEAN : Persist(i, client_error)

Spec == Init /\ [][Next]_vars

\* The same program against an analysis service that gives the same answer for
\* the same title (temperature 0, line 95).
RepeatableReplies == {ReplyEnglish, ReplyNumber, ReplyMissingKey, ReplyNotJson}

InitDet ==
    /\ store = EmptyTable
    /\ pc = [i \in Invocations |-> "idle"]
    /\ event = [i \in Invocations |-> NoEvent]
    /\ openai_data = [i \in Invocations |-> NoData]
    /\ response = [i \in Invocations |-> NoResponse]
    /\ calls = [i \in Invocations |-> <<>>]
    /\ started = 0
    /\ service \in [repeatable : {TRUE}, answer : [Titles -> RepeatableReplies],
                     replies : {Replies}]

SpecDet == InitDet /\ [][Next]_vars

\* The same program against a service whose replies differ in how they write
\* the Confidence number.
ReplyWithConfidence(jv) ==
    [json |-> TRUE, isobj |-> TRUE,
     obj |-> [DetectedLanguage |-> JString("English"), ISO639LanguageCode |-> JString("en"),
              Confidence |-> jv, Transliteration |-> JString("1984"),
              Translation |-> JString("1984")]]
ConfidenceReplies ==
    { ReplyWithConfidence(jv) :
        jv \in {JReal("0.87"), JReal("0.870"), JReal("0.95"), JReal("1e-7"), JInt("1"),
                JReal("0.12345678901234567890")} }

InitConfidence ==
    /\ store = EmptyTable
    /\ pc = [i \in Invocations |-> "idle"]
    /\ event = [i \in Invocations |-> NoEvent]
    /\ openai_data = [i \in Invocations |-> NoData]
    /\ response = [i \in Invocations |-> NoResponse]
    /\ calls = [i \in Invocations |-> <<>>]
    /\ started = 0
    /\ service = [repeatable |-> FALSE, answer |-> [t \in Titles |-> ReplyEnglish],
                  replies |-> ConfidenceReplies]

SpecConfidence == InitConfidence /\ [][Next]_vars

(***************************************************************************)
(* Vocabulary of the properties                                            *)
(***************************************************************************)
Done(i) == pc[i] = "done"
Key(i) == <<Get(event[i], "RecordID").s, Get(event[i], "Title").s>>
Ops(i) == {calls[i][n].op : n \in 1..Len(calls[i])}
LastCall(i) == calls[i][Len(calls[i])]

\* A field of the event that is absent or empty.
AbsentOrEmpty(e, k) == k \notin DOMAIN e \/ e[k].t = "NoneType" \/ (e[k].t = "str" /\ e[k].s = "")
InvalidInput(e) == AbsentOrEmpty(e, "RecordID") \/ AbsentOrEmpty(e, "Title")

\* The invocation's fetch returned, and found a record / found none.
FetchFound(i) ==
    Len(calls[i]) >= 1 /\ calls[i][1].op = "get_item" /\ calls[i][1].ok /\ calls[i][1].item # {}
FetchAbsent(i) ==
    Len(calls[i]) >= 1 /\ calls[i][1].op = "get_item" /\ calls[i][1].ok /\ calls[i][1].item = {}
Fetched(i) == CHOOSE rec \in calls[i][1].item : TRUE

\* The invocation's put went through; the item it wrote.
PutOk(i) == Len(calls[i]) >= 1 /\ LastCall(i).op = "put_item" /\ LastCall(i).ok
PutFailed(i) == Len(calls[i]) >= 1 /\ LastCall(i).op = "put_item" /\ ~LastCall(i).ok
Written(i) == CHOOSE item \in LastCall(i).item : TRUE

\* A record as it reads in a JSON body: text as a string, a number as a number.
RecordAsJson(rec) ==
    [k \in DOMAIN rec |->
        CASE rec[k].t = "str" -> JString(rec[k].s)
          [] rec[k].t \in {"int", "Decimal"} -> JInt(rec[k].s)
          [] rec[k].t = "float" -> JReal(rec[k].s)
          [] OTHER -> JNull]

\* Python's == on two values: numbers compare by value, whatever their type.
PyEqual(a, b) == a = b \/ (a.t \in {"int", "Decimal"} /\ b.t \in {"int", "Decimal"} /\ a.s = b.s)
PyEqualDict(a, b) == DOMAIN a = DOMAIN b /\ \A k \in DOMAIN a : PyEqual(a[k], b[k])

IsSuccess(r, message) ==
    r.statusCode = 200 /\ r.body.message = {message} /\ r.body.error = {} /\ r.body.data # {}
IsError(r, status) ==
    r.statusCode = status /\ r.body.message = {} /\ r.body.data = {} /\ r.body.error # {}

\* A reply of the analysis service that is not JSON, or JSON without a required key.
Malformed(content) ==
    ~content.json \/ ~content.isobj \/ ~(RequiredKeys \subseteq DOMAIN content.obj)
MalformedReply(i) ==
    \E n \in 1..Len(calls[i]) :
        calls[i][n].op = "create" /\ calls[i][n].ok /\ \E c \in calls[i][n].content : Malformed(c)

(***************************************************************************)
(* C1 (as claimed): an invocation whose fetch finds a record at its key    *)
(* returns 200, "Record found." and that record as data, and makes no      *)
(* analysis call.                                                          *)
(***************************************************************************)
C1_IdempotentHit ==
    \A i \in Invocations :
        Done(i) /\ FetchFound(i) =>
            /\ IsSuccess(response[i], "Record found.")
            /\ response[i].body.data = {RecordAsJson(Fetched(i))}
            /\ "create" \notin Ops(i)

(***************************************************************************)
(* C2 (as claimed): an invocation that answers "Record processed and       *)
(* stored." returns as data the record it wrote to the store: the analysis *)
(* fields plus RecordID, Title and OriginalLanguage.                       *)
(***************************************************************************)
C2_ReturnsStoredRecord ==
    \A i \in Invocations :
        Done(i) /\ response[i].body.message = {"Record processed and stored."} =>
            /\ response[i].statusCode = 200
            /\ PutOk(i)
            /\ response[i].body.data = {RecordAsJson(Written(i))}

(***************************************************************************)
(* C3 (as claimed): right after a successful miss-then-store, a lookup of  *)
(* the same key (get_record, or a second invocation) returns exactly the   *)
(* record just stored, all fields equal.                                   *)
(***************************************************************************)
C3_WriteOnceRoundTrip ==
    [][\A i \in Invocations :
          pc[i] = "store_record" /\ pc'[i] = "done" /\ response'[i].statusCode = 200 =>
              LET item == CHOOSE it \in calls'[i][Len(calls'[i])].item : TRUE
                  got == get_record(store', Get(event[i], "RecordID"), Get(event[i], "Title"), FALSE)
              IN /\ ~got.raised
                 /\ got.value # Absent
                 /\ \A rec \in got.value :
                        /\ PyEqualDict(rec, item)
                        /\ IsSuccess(Hit(rec), "Record found.")
                        /\ Hit(rec).body.data = {RecordAsJson(item)}]_vars

(***************************************************************************)
(* C4: an invocation whose RecordID or Title is absent or empty ends with  *)
(* status 400 and an error body, having called neither the store nor the   *)
(* analysis service.                                                       *)
(***************************************************************************)
C4_Validation ==
    \A i \in Invocations :
        pc[i] # "idle" /\ InvalidInput(event[i]) =>
            /\ Done(i)
            /\ IsError(response[i], 400)
            /\ calls[i] = <<>>

C4_Witness ==
    \E i \in Invocations :
        /\ Done(i)
        /\ "Title" \notin DOMAIN event[i]
        /\ response[i].statusCode = 400
        /\ \E j \in Invocations : Done(j) /\ "Title" \in DOMAIN event[j] /\ event[j]["Title"].s = ""

(***************************************************************************)
(* C5: an invocation whose analysis reply is not JSON, or is JSON without  *)
(* one of the required keys, ends with an error response; it never calls   *)
(* put_item and the step that ends it leaves the store as it was.          *)
(***************************************************************************)
C5_MalformedNoWrite ==
    [][\A i \in Invocations :
          MalformedReply(i)' /\ pc[i] # "done" =>
              /\ "put_item" \notin Ops(i)'
              /\ pc'[i] # pc[i] => store' = store
              /\ pc[i] = "store_record" => pc'[i] \in {"store_record", "done"}
              /\ pc'[i] = "done" => IsError(response'[i], 501)
              /\ pc'[i] # "done" => pc'[i] = "store_record"]_vars

C5_Witness ==
    /\ \E i \in Invocations :
          Done(i) /\ MalformedReply(i) /\ LastCall(i).content = {ReplyMissingKey}
    /\ \E i \in Invocations :
          Done(i) /\ MalformedReply(i) /\ LastCall(i).content = {ReplyNotJson}

(***************************************************************************)
(* C6 (as claimed): a row, once in the table, is never changed or removed. *)
(***************************************************************************)
C6_NeverUpdated ==
    [][\A k \in DOMAIN store : k \in DOMAIN store' /\ store'[k] = store[k]]_vars

(***************************************************************************)
(* C6 (amended): a row, once in the table, is never removed and keeps its  *)
(* key; its value is replaced only by the put of an invocation for the    *)
(* same key whose own fetch had found the key absent (a concurrent miss).  *)
(***************************************************************************)
C6_ReplacedOnlyByConcurrentMiss ==
    [][\A k \in DOMAIN store :
          /\ k \in DOMAIN store'
          /\ store'[k].RecordID = store[k].RecordID
          /\ store'[k].Title = store[k].Title
          /\ store'[k] # store[k] =>
                \E i \in Invocations :
                    /\ pc[i] = "store_record" /\ pc'[i] = "done"
                    /\ Key(i) = k
                    /\ FetchAbsent(i)
                    /\ PutOk(i)']_vars

C6_Witness ==
    \E i, j \in Invocations :
        /\ i # j /\ Done(i) /\ Done(j)
        /\ PutOk(i) /\ PutOk(j)
        /\ Key(i) = Key(j)
        /\ Written(i) # Written(j)
        /\ store[Key(i)] = SerializeItem(Written(j))

(***************************************************************************)
(* C7: with an analysis service that answers the same for the same title,  *)
(* two invocations for one key that both fetched it absent and both wrote  *)
(* it both return 200, and the row the table holds is the row one          *)
(* invocation for that key alone would have stored.                        *)
(***************************************************************************)
\* The row for a request and an analysis reply, attribute by attribute.
AttributeOf(jv) ==
    CASE jv.j = "string" -> [T |-> "S", v |-> jv.lit]
      [] jv.j = "int" -> [T |-> "N", v |-> jv.lit]
      [] OTHER -> [T |-> "NULL", v |-> ""]
ExpectedRow(e, content) ==
    [RecordID |-> [T |-> "S", v |-> e["RecordID"].s],
     Title |-> [T |-> "S", v |-> e["Title"].s],
     OriginalLanguage |-> IF "OriginalLanguage" \in DOMAIN e
                          THEN [T |-> "S", v |-> e["OriginalLanguage"].s]
                          ELSE [T |-> "NULL", v |-> ""],
     DetectedLanguage |-> AttributeOf(content.obj["DetectedLanguage"]),
     DetectedCode |-> AttributeOf(content.obj["ISO639LanguageCode"]),
     Confidence |-> [T |-> "S", v |-> content.obj["Confidence"].lit],
     Transliteration |-> AttributeOf(content.obj["Transliteration"]),
     Translation |-> AttributeOf(content.obj["Translation"])]
EventsOf(k) == {e \in Events : ~InvalidInput(e) /\ <<e["RecordID"].s, e["Title"].s>> = k}

ConcurrentMisses(i, j) ==
    /\ i # j /\ Done(i) /\ Done(j)
    /\ Key(i) = Key(j)
    /\ FetchAbsent(i) /\ FetchAbsent(j)
    /\ PutOk(i) /\ PutOk(j)

C7_ConcurrentMissesAgree ==
    \A i, j \in Invocations :
        ConcurrentMisses(i, j) =>
            /\ IsSuccess(response[i], "Record processed and stored.")
            /\ IsSuccess(response[j], "Record processed and stored.")
            /\ "create" \in Ops(i) /\ "create" \in Ops(j)
            /\ Key(i) \in DOMAIN store
            /\ store[Key(i)] \in {ExpectedRow(e, service.answer[Key(i)[2]]) : e \in EventsOf(Key(i))}

C7_Witness ==
    \E i, j \in Invocations : ConcurrentMisses(i, j) /\ event[i] # event[j]

(***************************************************************************)
(* C8: an invocation whose put fails after a successful analysis ends with *)
(* the catch-all error response: status 501, an error body, no data and no *)
(* success message.                                                        *)
(***************************************************************************)
C8_PersistFailure ==
    \A i \in Invocations :
        pc[i] # "store_record" /\ PutFailed(i) =>
            /\ Done(i)
            /\ IsError(response[i], 501)
            /\ response[i].body.message # {"Record processed and stored."}

C8_Witness ==
    \E i \in Invocations : Done(i) /\ PutFailed(i) /\ calls[i][2].ok

(***************************************************************************)
(* C9: every finished invocation has exactly one response, of status 200,  *)
(* 400 or 501.  400 is the status of a validation failure and of nothing   *)
(* else; a failed store read, store write or analysis call and a malformed *)
(* analysis reply give 501 with an error body; 200 is given only by a hit  *)
(* ("Record found.") or by a miss that analysed and stored.                *)
(***************************************************************************)
Failure(i) == MalformedReply(i) \/ \E n \in 1..Len(calls[i]) : ~calls[i][n].ok

C9_TwoTierStatus ==
    \A i \in Invocations :
        Done(i) =>
            LET r == response[i] IN
            /\ r.statusCode \in {200, 400, 501}
            /\ r.statusCode = 400 <=> InvalidInput(event[i])
            /\ r.statusCode = 400 => IsError(r, 400)
            /\ r.statusCode = 501 => IsError(r, 501)
            /\ Failure(i) => IsError(r, 501)
            /\ r.statusCode = 200 =>
                  \/ /\ FetchFound(i) /\ Len(calls[i]) = 1
                     /\ IsSuccess(r, "Record found.")
                  \/ /\ FetchAbsent(i) /\ Len(calls[i]) = 3
                     /\ calls[i][2].op = "create" /\ calls[i][2].ok
                     /\ PutOk(i)
                     /\ IsSuccess(r, "Record processed and stored.")

C9_Witness ==
    \E i, j \in Invocations :
        /\ Done(i) /\ response[i].statusCode = 400
        /\ Done(j) /\ response[j].statusCode = 501 /\ Failure(j)

(***************************************************************************)
(* C10: no exception leaves lambda_handler.  An invocation is never left   *)
(* without a response by an exception; while it is in flight its next step *)
(* can be taken and every step moves it forward; and when it has finished  *)
(* it has returned a status code and a body.                               *)
(***************************************************************************)
InFlight(i) == pc[i] \in {"get_record", "process_with_openai", "store_record"}
Rank(p) ==
    CASE p = "idle" -> 0
      [] p = "get_record" -> 1
      [] p = "process_with_openai" -> 2
      [] p = "store_record" -> 3
      [] OTHER -> 4
Step(i) ==
    \/ \E client_error \in BOOLEAN : Lookup(i, client_error)
    \/ \E api_error \in BOOLEAN, content \in service.replies : Analyze(i, api_error, content)
    \/ \E client_error \in BOOLEAN : Persist(i, client_error)

C10_NoExceptionEscapes ==
    /\ [](\A i \in Invocations :
            /\ pc[i] \in {"idle", "get_record", "process_with_openai", "store_record", "done"}
            /\ Done(i) <=> IsResponse(response[i])
            /\ Done(i) => response[i].body.message # {} \/ response[i].body.error # {}
            /\ InFlight(i) => ENABLED Step(i))
    /\ [][\A i \in Invocations :
            InFlight(i) /\ pc'[i] # pc[i] => Rank(pc'[i]) > Rank(pc[i])]_vars

C10_Witness ==
    \E i \in Invocations :
        /\ Done(i)
        /\ Len(calls[i]) = 2 /\ calls[i][2].content = {ReplyMissingKey}
        /\ response[i].statusCode = 501
        /\ response[i].body.error = {"Translation"}

(***************************************************************************)
(* C11 (as claimed): process_with_openai itself rejects a reply that is    *)
(* not an object with exactly the five required keys, so an invocation     *)
(* never stands before store_record with an analysis result that is not    *)
(* such an object.                                                         *)
(***************************************************************************)
C11_ClientRejectsMalformed ==
    \A i \in Invocations :
        pc[i] = "store_record" =>
            /\ openai_data[i].isdict
            /\ DOMAIN openai_data[i].d = RequiredKeys

(***************************************************************************)
(* C12 (as claimed): the Confidence of a stored record, read back from the *)
(* table, denotes exactly the decimal number the analysis service wrote in *)
(* its reply (0.87 reads back as 0.87).                                    *)
(***************************************************************************)
\* The number a decimal text denotes: its digits without trailing zeros, and
\* the power of ten they are scaled by.
DecimalValue(text) ==
    CASE text \in {"0.87", "0.870"} -> <<"87", -2>>
      [] text = "0.95" -> <<"95", -2>>
      [] text \in {"1e-7", "1e-07"} -> <<"1", -7>>
      [] text = "1" -> <<"1", 0>>
      [] text = "0.12345678901234567890" -> <<"1234567890123456789", -19>>
      [] text = "0.12345678901234568" -> <<"12345678901234568", -17>>
      [] OTHER -> <<text, 0>>

\* The Confidence the invocation's reply carried, and the one a lookup reads.
ConfidenceReturned(i) == (CHOOSE c \in calls[i][2].content : TRUE).obj["Confidence"].lit
ConfidenceReadBack(i) ==
    (CHOOSE rec \in get_record(store, Get(event[i], "RecordID"), Get(event[i], "Title"),
                               FALSE).value : TRUE)["Confidence"].s

\* The invocation stored a record and no later put has replaced it.
StoredAndKept(i) ==
    /\ Done(i) /\ PutOk(i)
    /\ Key(i) \in DOMAIN store
    /\ store[Key(i)] = SerializeItem(Written(i))

C12_ConfidenceFidelity ==
    \A i \in Invocations :
        StoredAndKept(i) =>
            DecimalValue(ConfidenceReadBack(i)) = DecimalValue(ConfidenceReturned(i))

(***************************************************************************)
(* C13: within one invocation the fetch comes first, the analysis call is  *)
(* made only after the fetch returned "absent" without error, and put_item *)
(* only after the analysis call returned a result; a failed fetch or a hit *)
(* is followed by no analysis call and no put, a failed analysis by no put.*)
(***************************************************************************)
\* The invocation's analysis call returned a parsed result.
AnalysisReturned(i) ==
    /\ Len(calls[i]) >= 2 /\ calls[i][2].op = "create" /\ calls[i][2].ok
    /\ \A c \in calls[i][2].content : c.json
AnalysisFailed(i) ==
    /\ Len(calls[i]) >= 2 /\ calls[i][2].op = "create"
    /\ ~calls[i][2].ok \/ \E c \in calls[i][2].content : ~c.json

C13_SequentialOrder ==
    \A i \in Invocations :
        /\ \A n \in 1..Len(calls[i]) :
              /\ calls[i][n].op = "get_item" <=> n = 1
              /\ calls[i][n].op = "create" => n = 2 /\ FetchAbsent(i)
              /\ calls[i][n].op = "put_item" => n = 3 /\ FetchAbsent(i) /\ AnalysisReturned(i)
        /\ Len(calls[i]) >= 1 /\ ~FetchAbsent(i) => Len(calls[i]) = 1 /\ Done(i)
        /\ AnalysisFailed(i) => Len(calls[i]) = 2 /\ Done(i)
        /\ pc[i] = "process_with_openai" => Len(calls[i]) = 1 /\ FetchAbsent(i)
        /\ pc[i] = "store_record" => Len(calls[i]) = 2 /\ AnalysisReturned(i)

C13_Witness ==
    \E i, j \in Invocations :
        /\ Done(i) /\ Len(calls[i]) = 3 /\ PutOk(i)
        /\ Done(j) /\ Len(calls[j]) = 1 /\ ~calls[j][1].ok

(***************************************************************************)
(* C14: an invocation makes at most one fetch, one analysis call and one   *)
(* put; a call that fails is its last call, and the invocation has then    *)
(* ended with the error response.                                          *)
(***************************************************************************)
CallsOf(i, op) == {n \in 1..Len(calls[i]) : calls[i][n].op = op}

C14_NoRetries ==
    \A i \in Invocations :
        /\ \A op \in {"get_item", "create", "put_item"} : Cardinality(CallsOf(i, op)) <= 1
        /\ Len(calls[i]) <= 3
        /\ \A n \in 1..Len(calls[i]) :
              ~calls[i][n].ok \/ (\E c \in calls[i][n].content : ~c.json) =>
                  /\ n = Len(calls[i])
                  /\ Done(i)
                  /\ IsError(response[i], 501)

C14_Witness ==
    \E i, j \in Invocations :
        /\ Done(i) /\ Len(calls[i]) = 2 /\ ~calls[i][2].ok /\ response[i].statusCode = 501
        /\ Done(j) /\ PutFailed(j) /\ response[j].statusCode = 501

(***************************************************************************)
(* C15 (as claimed): when an invocation has stored a record and a second   *)
(* request with the same RecordID and Title but another OriginalLanguage   *)
(* fetches it, the second is a hit: it returns 200 with the stored record  *)
(* unchanged (the first request's OriginalLanguage), makes no analysis     *)
(* call and no put.                                                        *)
(***************************************************************************)
SecondRequestFinds(i, j) ==
    /\ i # j /\ Done(i) /\ Done(j)
    /\ PutOk(i)
    /\ Key(j) = Key(i)
    /\ Get(event[j], "OriginalLanguage") # Get(event[i], "OriginalLanguage")
    /\ FetchFound(j)
    /\ PyEqualDict(Fetched(j), Written(i))

C15_OriginalLanguageNotInLookup ==
    \A i, j \in Invocations :
        SecondRequestFinds(i, j) =>
            /\ IsSuccess(response[j], "Record found.")
            /\ response[j].body.data = {RecordAsJson(Written(i))}
            /\ Ops(j) = {"get_item"}

(***************************************************************************)
(* C16: a step of an invocation that does not end it with "Record          *)
(* processed and stored." leaves the table as it was; the step that does   *)
(* changes the table at the key of its own request only; and no step       *)
(* removes a key.                                                          *)
(***************************************************************************)
StoredStep(i) ==
    /\ pc[i] = "store_record" /\ pc'[i] = "done"
    /\ response'[i].body.message = {"Record processed and stored."}

C16_StoreFrame ==
    [][/\ DOMAIN store \subseteq DOMAIN store'
       /\ \A i \in Invocations :
             (pc'[i] # pc[i] \/ calls'[i] # calls[i] \/ response'[i] # response[i]) =>
                 IF StoredStep(i)
                 THEN /\ DOMAIN store' = DOMAIN store \cup {Key(i)}
                      /\ \A k \in DOMAIN store : k # Key(i) => store'[k] = store[k]
                 ELSE store' = store]_vars

C16_Witness ==
    /\ Cardinality(DOMAIN store) = 2
    /\ \E i \in Invocations :
          Done(i) /\ PutOk(i) /\ response[i].body.message = {"Record processed and stored."}
    /\ \E j \in Invocations : Done(j) /\ response[j].statusCode = 501

(***************************************************************************)
(* C17: every row of the table carries the RecordID and Title of its key;  *)
(* and whenever a row is written, it is written by an invocation whose     *)
(* request has that key, from the request's fields and from the reply of   *)
(* that invocation's own analysis call, made with that title.              *)
(***************************************************************************)
OwnReply(i) == CHOOSE c \in calls[i][2].content : TRUE

C17_Provenance ==
    /\ [](\A k \in DOMAIN store : store[k].RecordID.v = k[1] /\ store[k].Title.v = k[2])
    /\ [][\A k \in DOMAIN store' :
             (k \notin DOMAIN store \/ store'[k] # store[k]) =>
                 \E i \in Invocations :
                     /\ pc[i] = "store_record" /\ pc'[i] = "done"
                     /\ <<event[i]["RecordID"].s, event[i]["Title"].s>> = k
                     /\ calls[i][2].op = "create" /\ calls[i][2].ok
                     /\ store'[k] = ExpectedRow(event[i], OwnReply(i))]_vars

C17_Witness ==
    \E i, j \in Invocations :
        /\ i # j /\ Done(i) /\ Done(j) /\ PutOk(i) /\ PutOk(j)
        /\ Key(i) # Key(j)
        /\ OwnReply(i) # OwnReply(j)
        /\ store[Key(i)] = ExpectedRow(event[i], OwnReply(i))
        /\ store[Key(j)] = ExpectedRow(event[j], OwnReply(j))
====
